---- MODULE Spec2Model ----
(***************************************************************************)
(* A model of src/userAuth.js: the OAuth login routes, the per-request     *)
(* session store selection, the auth gate, the domain matcher              *)
(* (isAuthorized) and the identity normaliser (setUserInfo).               *)
(*                                                                         *)
(* JavaScript strings that the code takes apart (e-mail addresses, the     *)
(* allow-list, its elements used as regular expressions) are sequences of  *)
(* one-character strings; strings the code only compares or concatenates   *)
(* (paths, ids, environment flags) are TLA+ strings.                       *)
(***************************************************************************)
EXTENDS Naturals, Sequences, FiniteSets, TLC

VARIABLES
    env,           \* process.env, read at start-up and on every request
    datastore,     \* the durable session store: session id -> session record
    pending,       \* how many requests are in the store selector, waiting for getDatastoreClient()
    selected,      \* per store kind, how many requests wait for their session after the
                   \* selector has invoked a session middleware on a store of that kind
    exchanging,    \* callback requests whose session is read, waiting for the provider's answer
    inflight,      \* requests whose handler has run and whose session save is pending
    nreq,          \* requests whose session middleware has run so far; also the source of fresh session ids
    call           \* the last direct call of a pure function: [fn, arg, ret]

vars == <<env, datastore, pending, selected, exchanging, inflight, nreq, call>>

----------------------------------------------------------------------------
(* Bounds *)

MaxRequests == 3

MaxInFlight == 2

----------------------------------------------------------------------------
(* Strings *)

\* JavaScript's undefined, where a string is expected
Undefined == <<"undefined">>

EmptyStr == <<>>

S_x_c == <<"x", ".", "c">>

S_y_c == <<"y", ".", "c">>

S_a_at_x_c == <<"a", "@", "x", ".", "c">>

S_b_at_y_c == <<"b", "@", "y", ".", "c">>

S_a_at_xc == <<"a", "@", "x", "c">>

S_b_at_y_c_list == <<"b", "@", "y", ".", "c", ",", "x", ".", "c">>

S_dotstar == <<".", "*">>

S_star_c == <<"*", ".", "c">>

S_x_c_sp == <<"x", ".", "c", ",", " ", "y", ".", "c">>

S_sp_x_c == <<" ", "x", ".", "c">>

S_x_c_trail == <<"x", ".", "c", " ">>

S_x_c_sp_comma == <<"x", ".", "c", " ", ",", "y", ".", "c">>

S_x_c_2sp == <<"x", ".", "c", ",", " ", " ", "y", ".", "c">>

S_x_c_comma == <<"x", ".", "c", ",">>

S_ystar == <<"y", "*">>

S_star_c_x_c == <<"*", ".", "c", ",", "x", ".", "c">>

S_c_star_c == <<"c", ",", "*", ".", "c">>

S_xc == <<"x", "c">>

S_star_at_x_c_y_c == <<"*", "@", "x", ".", "c", ",", "y", ".", "c">>

S_a == <<"a">>

S_dev_at_x_c == <<"d", "@", "x", ".", "c">>

S_defaultEmail == <<"l", "@", "x", ".", "c">>

\* the whitespace characters (\s) of the modelled alphabet
IsSpace(ch) == ch = " "

\* String.prototype.split(sep) for a one-character separator, then .slice(-1)[0]:
\* the part after the last separator, the whole string when there is none
RECURSIVE LastSegment(_, _)
LastSegment(s, sep) ==
    IF \E i \in 1..Len(s) : s[i] = sep
    THEN LET i == CHOOSE k \in 1..Len(s) : s[k] = sep /\ \A j \in 1..(k - 1) : s[j] # sep
         IN  LastSegment(SubSeq(s, i + 1, Len(s)), sep)
    ELSE s

\* String.prototype.split(/,\s?/g): cut at every comma, each comma taking at
\* most one following whitespace character with it
RECURSIVE SplitCommaSpace(_)
SplitCommaSpace(s) ==
    IF \E i \in 1..Len(s) : s[i] = ","
    THEN LET i    == CHOOSE k \in 1..Len(s) : s[k] = "," /\ \A j \in 1..(k - 1) : s[j] # ","
             skip == IF i + 1 <= Len(s) /\ IsSpace(s[i + 1]) THEN 1 ELSE 0
         IN  <<SubSeq(s, 1, i - 1)>> \o SplitCommaSpace(SubSeq(s, i + 1 + skip, Len(s)))
    ELSE <<s>>

\* new Set(array): the distinct elements in insertion order
RECURSIVE SetOfArray(_)
SetOfArray(a) ==
    IF a = <<>> THEN <<>>
    ELSE LET front == SetOfArray(SubSeq(a, 1, Len(a) - 1))
             last  == a[Len(a)]
         IN  IF \E i \in 1..Len(front) : front[i] = last THEN front ELSE Append(front, last)

\* Set.prototype.has
SetHas(set, x) == \E i \in 1..Len(set) : set[i] = x

----------------------------------------------------------------------------
(* Regular expressions, as String.prototype.match(string) builds and runs   *)
(* them: new RegExp(pattern), searched anywhere in the subject.  Within the *)
(* modelled alphabet the only special characters are "." and "*".           *)

\* new RegExp(p) throws SyntaxError (nothing to repeat) for a "*" with no atom before it
RegExpValid(p) ==
    \A i \in 1..Len(p) : p[i] = "*" => (i > 1 /\ p[i - 1] # "*")

AtomMatches(atom, ch) == atom = "." \/ atom = ch

\* the pattern from position i on matches a prefix of the subject from position j on
RECURSIVE MatchHere(_, _, _, _)
MatchHere(p, i, s, j) ==
    IF i > Len(p) THEN TRUE
    ELSE IF i + 1 <= Len(p) /\ p[i + 1] = "*"
         THEN \E k \in 0..(Len(s) - j + 1) :
                  /\ \A m \in j..(j + k - 1) : AtomMatches(p[i], s[m])
                  /\ MatchHere(p, i + 2, s, j + k)
         ELSE /\ j <= Len(s)
              /\ AtomMatches(p[i], s[j])
              /\ MatchHere(p, i + 1, s, j + 1)

\* subject.match(pattern) is not null, for a valid pattern
RegExpSearch(s, p) == \E j \in 1..(Len(s) + 1) : MatchHere(p, 1, s, j)

----------------------------------------------------------------------------
(* Configuration *)

\* const domains = new Set(process.env.APPROVED_DOMAINS.split(/,\s?/g))
domains == SetOfArray(SplitCommaSpace(env.APPROVED_DOMAINS))

\* authStrategy after the default for an unsupported value
authStrategy == IF env.OAUTH_STRATEGY \in {"google", "Slack"} THEN env.OAUTH_STRATEGY ELSE "google"

isSlackOauth == authStrategy = "Slack"

isDev == env.NODE_ENV = "development"

\* callbackURL = process.env.REDIRECT_URL || '/auth/redirect': the path the
\* provider sends the browser back to (REDIRECT_URL stands for its path)
callbackURL == IF env.REDIRECT_URL # "" THEN env.REDIRECT_URL ELSE "/auth/redirect"

\* const md5 = (data) => crypto.createHash('md5').update(data).digest('hex'),
\* tabulated for the inputs the model's ids produce
md5(data) ==
    CASE data = "10library" -> "b803c0f4c737779239234926e8f07cca"
      [] data = "g1library" -> "b1c4d50abb2bf528138126bd4a6d68d0"
      [] data = "g2library" -> "a4ef5a881f9e5086d76b6f747f240ea7"
      [] data = "g3library" -> "e50000ec3851ebd49d7b2f1be40eb411"
      [] data = "s1library" -> "9cc439faa703cce4a48e1b9763d02643"
      [] data = "s2library" -> "74c911cd09cb02bba1f539f74d2ea2db"

----------------------------------------------------------------------------
(* Profiles: what the provider hands to the verify callback.  emails is the *)
(* array of entries (empty also when the profile has no emails property:    *)
(* both read as user.emails || [] and both make emails[0].value throw), an  *)
(* entry is its value or Undefined; email is the Slack-shaped field.        *)

Profile(id, emails, email) == [id |-> id, emails |-> emails, email |-> email]

\* the {} that stands in for a missing passport user
EmptyUser == [id |-> "", emails |-> <<>>, email |-> Undefined]

\* isAuthorized's derivation of userEmail and userDomain
userEmailOf(user) ==
    IF Len(user.emails) = 0 THEN EmptyStr
    ELSE IF user.emails[1] = Undefined THEN EmptyStr ELSE user.emails[1]

userDomainOf(user) == LastSegment(userEmailOf(user), "@")

\* checkRegexEmail: "true", "undefined" (the loop ends without a return) or
\* "SyntaxError" (String.prototype.match throws on an element that is no
\* regular expression), trying the elements in insertion order from index i
RECURSIVE checkRegexEmailFrom(_, _)
checkRegexEmailFrom(userDomain, i) ==
    IF i > Len(domains) THEN "undefined"
    ELSE IF ~RegExpValid(domains[i]) THEN "SyntaxError"
    ELSE IF RegExpSearch(userDomain, domains[i]) THEN "true"
    ELSE checkRegexEmailFrom(userDomain, i + 1)

checkRegexEmail(userDomain) == checkRegexEmailFrom(userDomain, 1)

\* function isAuthorized(user): what the call evaluates to
isAuthorized(user) ==
    IF SetHas(domains, userDomainOf(user)) \/ SetHas(domains, userEmailOf(user))
    THEN "true"
    ELSE checkRegexEmail(userDomainOf(user))

----------------------------------------------------------------------------
(* Identity normaliser *)

\* process.env.TEST_EMAIL || template('footer.defaultEmail')
devEmail == IF env.TEST_EMAIL # EmptyStr THEN env.TEST_EMAIL ELSE S_defaultEmail

\* A session record: passport is <<>> (no passport user) or <<profile>>,
\* authRedirect is "" (not set) or a path.
Session(passport, authRedirect) == [passport |-> passport, authRedirect |-> authRedirect]

FreshSession == Session(<<>>, "")

\* function setUserInfo(req) throws TypeError: outside development mode it reads
\* req.session.passport.user.email or req.session.passport.user.emails[0].value
setUserInfoThrows(session) ==
    /\ ~isDev
    /\ \/ session.passport = <<>>
       \/ ~isSlackOauth /\ Len(session.passport[1].emails) = 0

\* function setUserInfo(req): the value of req.userInfo after a call that does not
\* throw; userInfo is req.userInfo before the call (<<>> when not set)
\* Mutant of the normaliser: the analytics id is the digest of the e-mail
setUserInfo_HashesEmail(session, userInfo) ==
    IF isDev
    THEN <<[email |-> devEmail, userId |-> "10", analyticsUserId |-> md5("10library")]>>
    ELSE LET user  == session.passport[1]
             email == IF isSlackOauth THEN user.email ELSE user.emails[1]
             hash  == CASE email = S_a_at_x_c -> "b95463f9bef3ece9b8db54a5b2a01f84"
                        [] email = S_b_at_y_c -> "36bfb2432039777d567e5911024e1112"
                        [] OTHER -> "e98c49c5b9947bab5eb9867c907fb6d0"
         IN  IF userInfo # <<>> THEN userInfo
             ELSE <<[userId |-> user.id, analyticsUserId |-> hash, email |-> email]>>

\* Mutant of the normaliser: the memo test is inverted
setUserInfo_MemoInverted(session, userInfo) ==
    IF isDev
    THEN <<[email |-> devEmail, userId |-> "10", analyticsUserId |-> md5("10library")]>>
    ELSE LET user  == session.passport[1]
             email == IF isSlackOauth THEN user.email ELSE user.emails[1]
         IN  IF userInfo = <<>> THEN userInfo
             ELSE <<[userId |-> user.id, analyticsUserId |-> md5(user.id \o "library"), email |-> email]>>

setUserInfo(session, userInfo) ==
    IF isDev
    THEN <<[email |-> devEmail, userId |-> "10", analyticsUserId |-> md5("10library")]>>
    ELSE LET user  == session.passport[1]
             email == IF isSlackOauth THEN user.email ELSE user.emails[1]
         IN  IF userInfo # <<>> THEN userInfo
             ELSE <<[userId |-> user.id,
                     analyticsUserId |-> md5(user.id \o "library"),
                     email |-> email]>>

----------------------------------------------------------------------------
(* Route handlers.  A handler's result: the session as the handler leaves   *)
(* it, the outcome (next: the downstream handler runs; error: next(err) or  *)
(* a throw, which the promise router passes to next; redirect), the         *)
(* req.userInfo attached, and how often isAuthorized was called.            *)

Handled(session, kind, arg, userInfo, matcherCalls) ==
    [session |-> session, outcome |-> [kind |-> kind, arg |-> arg],
     userInfo |-> userInfo, matcherCalls |-> matcherCalls]

\* req.isAuthenticated(): passport.session() has deserialized a user from the session
isAuthenticated(session) == session.passport # <<>>

\* (req.session.passport || {}).user || {}
passportUserOf(session) == IF session.passport = <<>> THEN EmptyUser ELSE session.passport[1]

\* router.get('/login', passport.authenticate(authStrategy, ...)): off to the provider
loginHandler(session) == Handled(session, "redirect", "provider", <<>>, 0)

\* router.get('/logout'): req.logout() deletes session.passport.user
logoutHandler(session) ==
    Handled(Session(<<>>, session.authRedirect), "redirect", "/", <<>>, 0)

\* router.get('/auth/redirect', passport.authenticate(authStrategy, {failureRedirect}), ...):
\* provider is <<>> when the provider exchange fails, <<profile>> when it succeeds
callbackHandler(session, provider) ==
    IF provider = <<>>
    THEN Handled(session, "redirect", "/login", <<>>, 0)
    ELSE Handled(Session(provider, session.authRedirect), "redirect",
                 IF session.authRedirect # "" THEN session.authRedirect ELSE "/",
                 <<>>, 0)

\* Mutant of the gate: the remembered path is written only when none is set
gateHandler_FirstPathWins(session, path) ==
    LET verdict == isAuthorized(passportUserOf(session))
    IN  IF isDev
        THEN Handled(session, "next", "", setUserInfo(session, <<>>), 0)
        ELSE IF ~isAuthenticated(session)
        THEN Handled(Session(session.passport,
                             IF session.authRedirect # "" THEN session.authRedirect ELSE path),
                     "redirect", "/login", <<>>, 0)
        ELSE IF verdict = "SyntaxError"
        THEN Handled(session, "error", "SyntaxError", <<>>, 1)
        ELSE IF verdict = "true"
        THEN IF setUserInfoThrows(session)
             THEN Handled(session, "error", "TypeError", <<>>, 1)
             ELSE Handled(session, "next", "", setUserInfo(session, <<>>), 1)
        ELSE Handled(session, "error", "Unauthorized", <<>>, 2)

\* Mutant of the gate: without the second test a rejected profile falls through
\* to the login redirect
gateHandler_RejectedRedirects(session, path) ==
    LET verdict == isAuthorized(passportUserOf(session))
    IN  IF isDev
        THEN Handled(session, "next", "", setUserInfo(session, <<>>), 0)
        ELSE IF ~isAuthenticated(session)
        THEN Handled(Session(session.passport, path), "redirect", "/login", <<>>, 0)
        ELSE IF verdict = "SyntaxError"
        THEN Handled(session, "error", "SyntaxError", <<>>, 1)
        ELSE IF verdict = "true"
        THEN IF setUserInfoThrows(session)
             THEN Handled(session, "error", "TypeError", <<>>, 1)
             ELSE Handled(session, "next", "", setUserInfo(session, <<>>), 1)
        ELSE Handled(Session(session.passport, path), "redirect", "/login", <<>>, 1)

\* Mutant of the gate: the development flag is tested after authentication,
\* req.isAuthenticated() && (isDev || isAuthorized(passportUser))
gateHandler_DevAfterAuthenticated(session, path) ==
    LET verdict == isAuthorized(passportUserOf(session))
    IN  IF ~isAuthenticated(session)
        THEN Handled(Session(session.passport, path), "redirect", "/login", <<>>, 0)
        ELSE IF isDev
        THEN Handled(session, "next", "", setUserInfo(session, <<>>), 0)
        ELSE IF verdict = "SyntaxError"
        THEN Handled(session, "error", "SyntaxError", <<>>, 1)
        ELSE IF verdict = "true"
        THEN IF setUserInfoThrows(session)
             THEN Handled(session, "error", "TypeError", <<>>, 1)
             ELSE Handled(session, "next", "", setUserInfo(session, <<>>), 1)
        ELSE Handled(session, "error", "Unauthorized", <<>>, 2)

\* router.use((req, res, next) => ...): the auth gate
gateHandler(session, path) ==
    LET passportUser == passportUserOf(session)
        authed       == isAuthenticated(session)
        verdict      == isAuthorized(passportUser)
    IN  IF isDev
        THEN Handled(session, "next", "", setUserInfo(session, <<>>), 0)
        ELSE IF ~authed
        THEN Handled(Session(session.passport, path), "redirect", "/login", <<>>, 0)
        ELSE IF verdict = "SyntaxError"
        THEN Handled(session, "error", "SyntaxError", <<>>, 1)
        ELSE IF verdict = "true"
        THEN IF setUserInfoThrows(session)
             THEN Handled(session, "error", "TypeError", <<>>, 1)
             ELSE Handled(session, "next", "", setUserInfo(session, <<>>), 1)
        ELSE Handled(session, "error", "Unauthorized", <<>>, 2)

\* the router: the first route whose path matches, the gate for every other path
route(path, session, provider) ==
    CASE path = "/login"         -> loginHandler(session)
      [] path = "/logout"        -> logoutHandler(session)
      [] path = "/auth/redirect" -> callbackHandler(session, provider)
      [] OTHER                   -> gateHandler(session, path)

----------------------------------------------------------------------------
(* Session store selector *)

\* getDatastoreClient(): null without a GCP_PROJECT_ID
datastoreClientIsNull == env.GCP_PROJECT_ID = ""

\* The try block awaits getDatastoreClient() and builds the DatastoreStore and
\* its session middleware.  It ends in the catch block when the client is null
\* (the DatastoreStore constructor throws without a dataset) and when the
\* datastore does not load: getAuth() rejects, or new Datastore, new
\* DatastoreStore or session() throws.  The catch block builds a session
\* middleware with no store option, i.e. on a MemoryStore of its own.  The
\* selector runs for every request and keeps nothing between requests:
\* datastoreLoads is the outcome for one request.
storeKind(datastoreLoads) ==
    IF datastoreClientIsNull \/ ~datastoreLoads THEN "memory" ELSE "datastore"

StoreKinds == {"datastore", "memory"}

\* Durations in seconds, the unit of a cookie's Max-Age (the code counts
\* milliseconds: 1000 * 60 * 60 * 24 * 7 and 1000 * 60 * 60 * 24 * 365)
serverExpiration == 60 * 60 * 24 * 7

cookieExpiration == 60 * 60 * 24 * 365

\* the cookie option of a session middleware; maxAge is <<>> (no Max-Age: the
\* cookie ends with the browser session) or <<seconds>>, sameSite is "" when
\* the attribute is not sent
CookieOptions(maxAge, sameSite, httpOnly) ==
    [maxAge |-> maxAge, sameSite |-> sameSite, httpOnly |-> httpOnly]

\* session({store: new DatastoreStore({expirationMs}), cookie: {...}, ...})
datastoreSession ==
    [store |-> "datastore", expiration |-> <<serverExpiration>>,
     cookie |-> CookieOptions(<<cookieExpiration>>, "lax", TRUE),
     resave |-> TRUE, rolling |-> TRUE, saveUninitialized |-> FALSE]

\* session({secret, resave: true, saveUninitialized: true}): no store, no
\* cookie option, so express-session's defaults (httpOnly, no maxAge, no
\* sameSite, no rolling)
memoryStoreSession ==
    [store |-> "memory", expiration |-> <<>>,
     cookie |-> CookieOptions(<<>>, "", TRUE),
     resave |-> TRUE, rolling |-> FALSE, saveUninitialized |-> TRUE]

\* the middleware the try / catch ends up running
sessionMiddleware(datastoreLoads) ==
    IF storeKind(datastoreLoads) = "datastore" THEN datastoreSession ELSE memoryStoreSession

\* a request without session cookie
NoCookie == 0

\* the session cookies a request may carry: none, or any session id generated
\* so far, whether the datastore holds a session under it or not (the session
\* was not saved, or was saved in the MemoryStore of one request)
Cookies == {NoCookie} \cup (1..nreq)

\* express-session on entry: the session of the cookie's id when the store of
\* this request holds it, a new session under a fresh id (the request's
\* number) otherwise.  The MemoryStore of the fallback is built for this
\* request (lines 103-111) and holds nothing.
sessionLoad(n, cookie, store) ==
    IF store = "datastore" /\ cookie \in DOMAIN datastore
    THEN [store |-> "datastore", sid |-> cookie, isNew |-> FALSE, session |-> datastore[cookie]]
    ELSE [store |-> store, sid |-> n, isNew |-> TRUE, session |-> FreshSession]

\* express-session at the end of the response.  resave: true saves every session
\* that came from the store; a new session is saved when saveUninitialized is
\* true (the fallback middleware) or when the handler has modified it.
shouldSave(r) ==
    \/ ~r.isNew /\ r.middleware.resave
    \/ r.isNew /\ r.middleware.saveUninitialized
    \/ r.session # r.loaded

\* express-session sends Set-Cookie, with the middleware's cookie option, for
\* the id of a new session it saves, and with rolling for every session
shouldSetCookie(r) ==
    IF r.isNew THEN r.middleware.saveUninitialized \/ r.session # r.loaded
    ELSE r.middleware.rolling \/ (r.middleware.cookie.maxAge # <<>> /\ r.session # r.loaded)

----------------------------------------------------------------------------
(* Requests *)

GatedPaths == {"/dashboard", "/docs"}

GoogleOk == Profile("g1", <<S_a_at_x_c>>, Undefined)

GoogleOther == Profile("g2", <<S_b_at_y_c>>, Undefined)

GoogleNoEmails == Profile("g3", <<>>, Undefined)

SlackOnly == Profile("s1", <<>>, S_a_at_x_c)

SlackBoth == Profile("s2", <<S_a_at_x_c>>, S_b_at_y_c)

\* the profiles the configured provider may hand over
ProviderProfiles ==
    IF isSlackOauth THEN {SlackOnly, SlackBoth} ELSE {GoogleOk, GoogleOther, GoogleNoEmails}

\* the requests the server is working on
InProgress ==
    pending + selected["datastore"] + selected["memory"]
        + Cardinality(exchanging) + Cardinality(inflight)

\* A request enters the store selector, which awaits getDatastoreClient():
\* other requests may enter, run and save before it goes on.  The selector
\* reads nothing of the request; its path, cookie and provider answer are
\* drawn where the code first reads them.
Receive ==
    /\ nreq + pending + selected["datastore"] + selected["memory"] < MaxRequests
    /\ InProgress < MaxInFlight
    /\ pending' = pending + 1
    /\ UNCHANGED <<env, datastore, selected, exchanging, inflight, nreq, call>>

\* The await is over for one request, with the datastore loaded or not: the
\* selector builds a session middleware and invokes it.
SelectStore ==
    /\ pending > 0
    /\ pending' = pending - 1
    /\ \E datastoreLoads \in IF datastoreClientIsNull THEN {FALSE} ELSE BOOLEAN :
           selected' = [selected EXCEPT ![sessionMiddleware(datastoreLoads).store] = @ + 1]
    /\ UNCHANGED <<env, datastore, exchanging, inflight, nreq, call>>

\* what the session middleware of a store kind hands on: the request with the
\* session it has read
sessionRead(path, cookie, store) ==
    LET l == sessionLoad(nreq + 1, cookie, store)
    IN  [n |-> nreq + 1, path |-> path,
         middleware |-> IF store = "datastore" THEN datastoreSession ELSE memoryStoreSession,
         store |-> l.store, sid |-> l.sid, isNew |-> l.isNew, loaded |-> l.session]

\* the request after its handler, waiting for its session save
handled(x, provider) ==
    LET h == route(x.path, x.loaded, provider)
    IN  [n |-> x.n, path |-> x.path, provider |-> provider,
         middleware |-> x.middleware, store |-> x.store, sid |-> x.sid,
         isNew |-> x.isNew, loaded |-> x.loaded, session |-> h.session,
         outcome |-> h.outcome, userInfo |-> h.userInfo, matcherCalls |-> h.matcherCalls]

\* The session middleware has the session of its store; passport.session() and
\* the matching handler run on what was read, and the request waits for its
\* session save.
RunSession(path, cookie, provider, store) ==
    /\ selected[store] > 0
    /\ selected' = [selected EXCEPT ![store] = @ - 1]
    /\ nreq' = nreq + 1
    /\ inflight' = inflight \cup {handled(sessionRead(path, cookie, store), provider)}
    /\ UNCHANGED <<env, datastore, pending, exchanging, call>>

\* On the callback route the session middleware has the session and
\* passport.authenticate goes to the provider before the route's function runs.
StartExchange(cookie, store) ==
    /\ selected[store] > 0
    /\ selected' = [selected EXCEPT ![store] = @ - 1]
    /\ nreq' = nreq + 1
    /\ exchanging' = exchanging \cup {sessionRead("/auth/redirect", cookie, store)}
    /\ UNCHANGED <<env, datastore, pending, inflight, call>>

Login ==
    \E cookie \in Cookies : \E store \in StoreKinds :
        RunSession("/login", cookie, <<>>, store)

Logout ==
    \E cookie \in Cookies : \E store \in StoreKinds :
        RunSession("/logout", cookie, <<>>, store)

\* GET /auth/redirect: the callback route is registered on this path whatever
\* callbackURL is
AuthRedirect ==
    \E cookie \in Cookies : \E store \in StoreKinds : StartExchange(cookie, store)

\* the provider answers, with the profile of a successful authentication or
\* without one, and the callback route goes on
ProviderAnswers ==
    \E x \in exchanging :
        \E provider \in {<<>>} \cup {<<p>> : p \in ProviderProfiles} :
            /\ exchanging' = exchanging \ {x}
            /\ inflight' = inflight \cup {handled(x, provider)}
            /\ UNCHANGED <<env, datastore, pending, selected, nreq, call>>

\* A request on a path that no route matches reaches the auth gate.  The
\* provider sends the browser back to callbackURL: when that is not the path of
\* the callback route, the request goes through the gate, whatever the provider
\* has to say.
Gate ==
    \E cookie \in Cookies : \E store \in StoreKinds :
        \/ \E path \in GatedPaths : RunSession(path, cookie, <<>>, store)
        \/ /\ callbackURL # "/auth/redirect"
           /\ \E provider \in {<<>>} \cup {<<p>> : p \in ProviderProfiles} :
                  RunSession(callbackURL, cookie, provider, store)

\* The response ends: express-session writes the session to the request's
\* store.  The MemoryStore of a fallback request is referenced by that
\* request's middleware alone: what is written to it goes with the request.
SessionSave ==
    \E r \in inflight :
        /\ inflight' = inflight \ {r}
        /\ IF shouldSave(r) /\ r.store = "datastore"
           THEN datastore' = [s \in DOMAIN datastore \cup {r.sid} |->
                                 IF s = r.sid THEN r.session ELSE datastore[s]]
           ELSE UNCHANGED datastore
        /\ UNCHANGED <<env, pending, selected, exchanging, nreq, call>>

----------------------------------------------------------------------------
(* The server *)

AllowLists == {S_x_c, S_dotstar}

AllEnvironments ==
    [NODE_ENV : {"production", "development"},
     OAUTH_STRATEGY : {"google", "Slack"},
     APPROVED_DOMAINS : AllowLists,
     GCP_PROJECT_ID : {"", "library"},
     REDIRECT_URL : {"", "/oauth/callback"},
     TEST_EMAIL : {EmptyStr, S_dev_at_x_c}]

\* TEST_EMAIL is read in development mode only, and the gate consults the
\* allow-list in production mode only: one value of each where it is not read.
\* Without a project id no session is ever read back, so one allow-list is
\* explored there, with no TEST_EMAIL in development mode; with a project id
\* development mode is explored under google with TEST_EMAIL set, and Slack
\* under one allow-list.  A callback path of its own is explored in production
\* mode under one allow-list: with a project id under Slack, without one under
\* google.
Environments ==
    {e \in AllEnvironments :
        /\ e.NODE_ENV = "production" => e.TEST_EMAIL = EmptyStr
        /\ e.NODE_ENV = "development" =>
               /\ e.APPROVED_DOMAINS = S_x_c
               /\ e.TEST_EMAIL = EmptyStr <=> e.GCP_PROJECT_ID = ""
               /\ e.GCP_PROJECT_ID # "" => e.OAUTH_STRATEGY = "google"
        /\ e.GCP_PROJECT_ID = "" => e.APPROVED_DOMAINS = S_x_c
        /\ e.REDIRECT_URL # "" =>
               /\ e.APPROVED_DOMAINS = S_x_c /\ e.NODE_ENV = "production"
               /\ e.OAUTH_STRATEGY = "Slack" <=> e.GCP_PROJECT_ID # ""
        /\ e.OAUTH_STRATEGY = "Slack" => e.APPROVED_DOMAINS = S_x_c}

NoCall == [fn |-> "none"]

Init ==
    /\ env \in Environments
    /\ datastore = <<>>
    /\ pending = 0
    /\ selected = [k \in StoreKinds |-> 0]
    /\ exchanging = {}
    /\ inflight = {}
    /\ nreq = 0
    /\ call = NoCall

Next ==
    \/ Receive \/ SelectStore
    \/ Login \/ Logout \/ AuthRedirect \/ ProviderAnswers \/ Gate
    \/ SessionSave

Spec == Init /\ [][Next]_vars

----------------------------------------------------------------------------
(* The domain matcher called directly, on every allow-list and profile of   *)
(* a bounded set.                                                           *)

MatcherAllowLists ==
    {S_x_c, S_y_c, S_a_at_x_c, S_b_at_y_c_list, S_dotstar, S_star_c, S_x_c_sp,
     S_x_c_comma, S_ystar, S_star_c_x_c, S_c_star_c, S_xc, S_a, S_star_at_x_c_y_c,
     S_sp_x_c, S_x_c_trail, S_x_c_sp_comma, S_x_c_2sp, EmptyStr}

MatcherEmails ==
    {S_a_at_x_c, S_b_at_y_c, S_a_at_xc, S_a, S_x_c, EmptyStr,
     <<"a", "@", "b", "@", "x", ".", "c">>, <<"a", "@", "y", "y", "c">>, <<"x", "y", "c">>}

MatcherProfiles ==
    {Profile("g1", <<e>>, Undefined) : e \in MatcherEmails}
        \cup {Profile("g1", <<>>, Undefined), Profile("g1", <<Undefined>>, Undefined)}

MatcherEnvironments ==
    [NODE_ENV : {"production"},
     OAUTH_STRATEGY : {"google"},
     APPROVED_DOMAINS : MatcherAllowLists,
     GCP_PROJECT_ID : {"library"},
     REDIRECT_URL : {""},
     TEST_EMAIL : {EmptyStr}]

InitMatcher ==
    /\ env \in MatcherEnvironments
    /\ datastore = <<>>
    /\ pending = 0
    /\ selected = [k \in StoreKinds |-> 0]
    /\ exchanging = {}
    /\ inflight = {}
    /\ nreq = 0
    /\ call = NoCall

CallIsAuthorized ==
    /\ \E user \in MatcherProfiles :
           call' = [fn |-> "isAuthorized", arg |-> user, userEmail |-> userEmailOf(user),
                    userDomain |-> userDomainOf(user), ret |-> isAuthorized(user)]
    /\ UNCHANGED <<env, datastore, pending, selected, exchanging, inflight, nreq>>

NextMatcher == CallIsAuthorized

SpecMatcher == InitMatcher /\ [][NextMatcher]_vars

----------------------------------------------------------------------------
(* The identity normaliser called directly: setUserInfo(req) twice on one   *)
(* request, for every environment and every session of a bounded set.       *)

\* a second Google profile under the id of GoogleOk
GoogleOkOtherEmail == Profile("g1", <<S_b_at_y_c>>, Undefined)

IdentityProfiles ==
    {GoogleOk, GoogleOther, GoogleNoEmails, GoogleOkOtherEmail, SlackOnly, SlackBoth}

IdentitySessions ==
    {FreshSession} \cup {Session(<<p>>, "") : p \in IdentityProfiles}

InitIdentity ==
    /\ env \in Environments
    /\ datastore = <<>>
    /\ pending = 0
    /\ selected = [k \in StoreKinds |-> 0]
    /\ exchanging = {}
    /\ inflight = {}
    /\ nreq = 0
    /\ call = NoCall

\* A request whose req.userInfo is not set yet calls setUserInfo(req) twice;
\* first and second are req.userInfo after each call (<<>>: not set), threw
\* tells that the first call threw, before is req.userInfo as the previous
\* request ended up with.
CallSetUserInfoTwice ==
    /\ \E session \in IdentitySessions :
           LET threw  == setUserInfoThrows(session)
               first  == IF threw THEN <<>> ELSE setUserInfo(session, <<>>)
               second == IF threw THEN <<>> ELSE setUserInfo(session, first)
           IN  call' = [fn |-> "setUserInfo", arg |-> session, threw |-> threw,
                        first |-> first, second |-> second,
                        before |-> IF call.fn = "setUserInfo" THEN call.second ELSE <<>>]
    /\ UNCHANGED <<env, datastore, pending, selected, exchanging, inflight, nreq>>

NextIdentity == CallSetUserInfoTwice

SpecIdentity == InitIdentity /\ [][NextIdentity]_vars

----------------------------------------------------------------------------
(* Properties *)

\* the requests in flight that the router hands to the auth gate
GateRequests == {r \in inflight : r.path \notin {"/login", "/logout", "/auth/redirect"}}

\* the requests whose session load and handler the step runs
Received == inflight' \ inflight

\* the requests whose session save the step performs
Saved == inflight \ inflight'

Outcome(kind, arg) == [kind |-> kind, arg |-> arg]

\* the requests whose session the step reads
Read == Received \cup (exchanging' \ exchanging)

\* C1: every request that reaches the auth gate ends in exactly one of: proceed
\* downstream, propagate an 'Unauthorized' error, redirect to /login; and it
\* proceeds only in development mode or on an authenticated session whose
\* profile isAuthorized accepts.
C1_GateOutcomes ==
    \A r \in GateRequests :
        /\ r.outcome \in {Outcome("next", ""), Outcome("error", "Unauthorized"),
                          Outcome("redirect", "/login")}
        /\ r.outcome.kind = "next" =>
               \/ isDev
               \/ isAuthenticated(r.loaded) /\ isAuthorized(passportUserOf(r.loaded)) = "true"

\* C2: isAuthorized returns true iff the e-mail's domain is an element of the
\* set, or the e-mail is, or the domain matches (regex search) some element
\* taken as a pattern; otherwise it returns a false value (undefined is read
\* as false here).
C2_MatcherIff ==
    call.fn = "isAuthorized" =>
        LET E       == userEmailOf(call.arg)
            D       == userDomainOf(call.arg)
            accepts == \/ SetHas(domains, D)
                       \/ SetHas(domains, E)
                       \/ \E i \in 1..Len(domains) :
                              RegExpValid(domains[i]) /\ RegExpSearch(D, domains[i])
        IN  /\ call.ret = "true" <=> accepts
            /\ ~accepts => call.ret \in {"false", "undefined"}

\* C3: for a profile with no e-mail entry or an empty e-mail, isAuthorized
\* reports the profile as unauthorized and does not throw, whatever allow-list
\* the configuration produces.
C3_FailsClosed ==
    (call.fn = "isAuthorized" /\ userEmailOf(call.arg) = EmptyStr) =>
        call.ret \notin {"true", "SyntaxError"}

\* C4: outside development mode a gated request on a session with no
\* authenticated profile records the requested path as the session's
\* authRedirect (and the session is saved), redirects to /login, attaches no
\* UserInfo and does not reach the downstream handler.
C4_UnauthenticatedRedirects ==
    \A r \in GateRequests :
        (~isDev /\ ~isAuthenticated(r.loaded)) =>
            /\ r.session = Session(<<>>, r.path)
            /\ shouldSave(r)
            /\ r.outcome = Outcome("redirect", "/login")
            /\ r.userInfo = <<>>

\* C4 witness: an unauthenticated gated request on a session that already
\* remembers another path
C4_Witness ==
    \E r \in GateRequests :
        /\ ~isDev /\ ~isAuthenticated(r.loaded)
        /\ r.loaded.authRedirect \notin {"", r.path}
        /\ r.outcome.kind = "redirect"

\* C5: outside development mode a gated request on an authenticated session
\* whose profile isAuthorized rejects propagates an 'Unauthorized' error: no
\* redirect, no UserInfo, no downstream handler, the session left as loaded.
C5_UnauthorizedError ==
    \A r \in GateRequests :
        (/\ ~isDev
         /\ isAuthenticated(r.loaded)
         /\ isAuthorized(passportUserOf(r.loaded)) = "undefined") =>
            /\ r.outcome = Outcome("error", "Unauthorized")
            /\ r.userInfo = <<>>
            /\ r.session = r.loaded

\* C5 witness: a rejected profile on a session that remembers a path
C5_Witness ==
    \E r \in GateRequests :
        /\ ~isDev
        /\ isAuthenticated(r.loaded)
        /\ isAuthorized(passportUserOf(r.loaded)) = "undefined"
        /\ r.loaded.authRedirect # ""
        /\ r.outcome.kind = "error"

\* C6: in production mode, for every authenticated session whose profile the
\* matcher accepts, the gate attaches UserInfo (userId = the profile's id,
\* analyticsUserId = md5(userId + "library"), email = the profile's e-mail) and
\* proceeds downstream, and never errors or throws.
C6_AuthorizedProceeds ==
    \A r \in GateRequests :
        (/\ ~isDev
         /\ isAuthenticated(r.loaded)
         /\ isAuthorized(passportUserOf(r.loaded)) = "true") =>
            LET user == passportUserOf(r.loaded)
            IN  /\ r.outcome = Outcome("next", "")
                /\ r.userInfo = <<[userId |-> user.id,
                                   analyticsUserId |-> md5(user.id \o "library"),
                                   email |-> IF isSlackOauth THEN user.email
                                             ELSE userEmailOf(user)]>>

\* C7: in development mode every gated request proceeds downstream with the
\* synthetic identity (userId "10", analyticsUserId md5("10library"), the
\* override e-mail), whatever the session holds, and isAuthorized is not called.
C7_DevBypass ==
    \A r \in GateRequests :
        isDev =>
            /\ r.outcome = Outcome("next", "")
            /\ r.userInfo = <<[userId |-> "10",
                               analyticsUserId |-> "b803c0f4c737779239234926e8f07cca",
                               email |-> IF env.TEST_EMAIL # EmptyStr THEN env.TEST_EMAIL
                                         ELSE S_defaultEmail]>>
            /\ r.matcherCalls = 0
            /\ r.session = r.loaded

\* C7 witness: development mode, override e-mail set, and the session holds a
\* profile that the matcher would not accept
C7_Witness ==
    \E r \in GateRequests :
        /\ isDev
        /\ env.TEST_EMAIL # EmptyStr
        /\ isAuthenticated(r.loaded)
        /\ isAuthorized(passportUserOf(r.loaded)) # "true"
        /\ r.outcome.kind = "next"

\* C8: a successful provider callback populates the session's profile and
\* redirects to the session's authRedirect if set, else to '/'; a failed one
\* redirects to /login and leaves the session unauthenticated; and once the
\* response of a successful callback has ended, a request that carries the
\* session's id reads a session with the profile, whichever store the
\* selector gives it.
C8_CallbackThenAuthenticated ==
    [][/\ \A r \in Received :
              /\ (r.path = "/auth/redirect" /\ r.provider # <<>>) =>
                     /\ r.session.passport = r.provider
                     /\ r.outcome = Outcome("redirect", IF r.loaded.authRedirect # ""
                                                        THEN r.loaded.authRedirect ELSE "/")
              /\ (r.path = "/auth/redirect" /\ r.provider = <<>>) =>
                     /\ r.session = r.loaded
                     /\ r.outcome = Outcome("redirect", "/login")
       /\ \A r \in Saved :
              (~isDev /\ r.path = "/auth/redirect" /\ r.provider # <<>>) =>
                  \A store \in {storeKind(datastoreLoads) : datastoreLoads \in BOOLEAN} :
                      (sessionLoad(nreq + 1, r.sid, store).session.passport)' = r.provider]_vars

\* C9: logout clears the authenticated session state from any state and
\* redirects to '/', and from then on the session's record stays without a
\* profile (gated requests on it are redirected to /login) until the save of a
\* new successful callback.
C9_LogoutUntilCallback ==
    [][/\ \A r \in Received :
              r.path = "/logout" =>
                  /\ r.session.passport = <<>>
                  /\ r.outcome = Outcome("redirect", "/")
       /\ \A sid \in DOMAIN datastore :
              (~isDev /\ datastore[sid].passport = <<>> /\ datastore'[sid].passport # <<>>) =>
                  \E r \in Saved :
                      r.sid = sid /\ r.path = "/auth/redirect" /\ r.provider # <<>>]_vars

\* C10: when durable store construction fails every request is served by the
\* fallback session middleware, and the session state a request on the
\* fallback leaves at the end of its response is what a later request on the
\* fallback reads under the same session id.
C10_FallbackSessionWorks ==
    [][/\ \A r \in Read : datastoreClientIsNull => r.store = "memory"
       /\ \A r \in Saved :
              r.store = "memory" =>
                  (sessionLoad(nreq + 1, r.sid, "memory").session)' = r.session]_vars

\* C11: whatever callback path is configured, the provider's callback request
\* to that path is handled by the login callback and not by the auth gate: a
\* successful authentication leaves the profile on the session, and the
\* browser is not sent to /login again.
C11_CallbackPathHandled ==
    \A r \in inflight :
        (~isDev /\ r.path = callbackURL /\ r.provider # <<>>)
            => /\ r.session.passport = r.provider
               /\ r.outcome # Outcome("redirect", "/login")

\* the entries of a comma-separated list: its maximal comma-free stretches
CommaEntries(s) ==
    {SubSeq(s, i, j) : <<i, j>> \in
        {<<a, b>> \in (1..(Len(s) + 1)) \X (0..Len(s)) :
            /\ b >= a - 1
            /\ a = 1 \/ s[a - 1] = ","
            /\ b = Len(s) \/ s[b + 1] = ","
            /\ \A k \in a..b : s[k] # ","}}

\* an entry without the whitespace around it
RECURSIVE Trimmed(_)
Trimmed(e) ==
    IF e # <<>> /\ IsSpace(e[1]) THEN Trimmed(Tail(e))
    ELSE IF e # <<>> /\ IsSpace(e[Len(e)]) THEN Trimmed(SubSeq(e, 1, Len(e) - 1))
    ELSE e

\* C12: parsing the configured allow-list yields exactly the set of its
\* comma-separated entries with any surrounding whitespace removed (before or
\* after a comma, at the start or the end, one character or several).
C12_ParseTrimsEntries ==
    {domains[i] : i \in 1..Len(domains)}
        = {Trimmed(e) : e \in CommaEntries(env.APPROVED_DOMAINS)}

\* the part of an e-mail after its last '@'; nothing when it has no '@'
AfterLastAt(email) ==
    IF \E i \in 1..Len(email) : email[i] = "@"
    THEN LET k == CHOOSE i \in 1..Len(email) :
                      email[i] = "@" /\ \A j \in (i + 1)..Len(email) : email[j] # "@"
         IN  SubSeq(email, k + 1, Len(email))
    ELSE EmptyStr

\* C13: the userDomain isAuthorized derives is the substring after the last
\* '@' of the e-mail, the empty string when the e-mail has no '@'; an e-mail
\* without '@' is therefore never accepted through its domain.
C13_UserDomainAfterLastAt ==
    call.fn = "isAuthorized"
        => /\ call.userDomain = AfterLastAt(call.userEmail)
           /\ (AfterLastAt(call.userEmail) = EmptyStr /\ ~SetHas(domains, EmptyStr)
                   /\ ~SetHas(domains, call.userEmail) /\ call.ret = "true")
                  => \E i \in 1..Len(domains) :
                         RegExpValid(domains[i]) /\ RegExpSearch(EmptyStr, domains[i])

\* C14: at the login callback the session's authRedirect is the path of the
\* gated request that first found the session unauthenticated, so a further
\* unauthenticated gated request on a session that already remembers a path
\* leaves that path in place.
C14_FirstPathKept ==
    \A r \in GateRequests :
        (~isDev /\ ~isAuthenticated(r.loaded) /\ r.loaded.authRedirect # "")
            => r.session.authRedirect = r.loaded.authRedirect

\* C15: logout destroys the session record: what a logout request leaves for
\* the store holds neither a profile nor an authRedirect, so a successful
\* callback on a session that has no request after its logout but that
\* callback redirects to '/'.
C15_LogoutDestroysRecord ==
    \A r \in inflight :
        r.path = "/logout" => r.session = FreshSession

\* C16: calling setUserInfo twice within one request yields the identical
\* UserInfo both times, in production and in development mode: the first call
\* attaches a UserInfo (unless it throws) and the second changes no field.
C16_SetUserInfoIdempotent ==
    (call.fn = "setUserInfo" /\ ~call.threw)
        => /\ call.first # <<>>
           /\ call.second = call.first

\* C16 witness: two calls in production on a session with a profile, after a
\* request that ended with another UserInfo
C16_Witness ==
    /\ call.fn = "setUserInfo" /\ ~call.threw /\ ~isDev
    /\ call.first # <<>> /\ call.second = call.first
    /\ call.before # <<>> /\ call.before # call.first

\* C18: analyticsUserId is a function of the userId alone: every UserInfo
\* carries the digest of its userId followed by "library", and two requests
\* whose UserInfo has the same userId get the same analyticsUserId, whatever
\* their sessions and e-mails.
C18_AnalyticsIdOfUserIdAlone ==
    (call.fn = "setUserInfo" /\ call.first # <<>>)
        => /\ call.first[1].analyticsUserId = md5(call.first[1].userId \o "library")
           /\ (call.before # <<>> /\ call.before[1].userId = call.first[1].userId)
                  => call.before[1].analyticsUserId = call.first[1].analyticsUserId

\* C18 witness: two requests in production with the same userId and
\* different e-mails
C18_Witness ==
    /\ call.fn = "setUserInfo" /\ ~isDev
    /\ call.first # <<>> /\ call.before # <<>>
    /\ call.before[1].userId = call.first[1].userId
    /\ call.before[1].email # call.first[1].email
    /\ call.before[1].analyticsUserId = call.first[1].analyticsUserId

\* C17: every session middleware the selector produces, durable or fallback,
\* issues the session cookie with SameSite=Lax, HttpOnly and the 365-day
\* max-age, and on the durable path the 7-day server-side expiration is shorter
\* than that max-age.
C17_CookieAttributesEverywhere ==
    \A r \in inflight :
        /\ r.middleware.cookie = CookieOptions(<<31536000>>, "lax", TRUE)
        /\ r.store = "datastore"
               => /\ r.middleware.expiration = <<604800>>
                  /\ r.middleware.expiration[1] < r.middleware.cookie.maxAge[1]

\* C19: under either provider, whenever the gate lets an authenticated request
\* proceed in production mode, the e-mail of the attached UserInfo is the
\* e-mail isAuthorized evaluated for that request.
C19_SameEmailDecidedAndAttached ==
    \A r \in GateRequests :
        (~isDev /\ r.outcome = Outcome("next", ""))
            => /\ r.userInfo # <<>>
               /\ r.userInfo[1].email = userEmailOf(passportUserOf(r.loaded))

\* C20: with requests on one session in flight concurrently, each loading the
\* record at its start and writing it back at its end, a profile stored by a
\* completed login callback is never lost: only the save of a logout takes
\* the profile off a stored session.
C20_ProfileNeverLost ==
    [][\A sid \in DOMAIN datastore :
          (datastore[sid].passport # <<>> /\ datastore'[sid].passport = <<>>)
              => \E r \in Saved : r.sid = sid /\ r.path = "/logout"]_vars

============================================================================
